---- MODULE Spec2Model ----
(***************************************************************************)
(* Model of the data-cleaning scripts of dataquest25:                      *)
(*   src/ratings.py  clean_ratings  (rating resolver)                      *)
(*   src/users.py    module body    (user-profile sanitizers)              *)
(*   src/history.py  validate_watch_history (referential validator)        *)
(* and of the subscription interval merger that spec.md section 4.1        *)
(* describes (its source file is not among the sources).                   *)
(*                                                                         *)
(* A pandas DataFrame is a record [columns, rows]: the set of column names *)
(* and the sequence of rows, each row a function from the column names to  *)
(* cell values.  Index labels are not modelled: no code path reads them.   *)
(* Each program is a pure function of its input tables, so each has its    *)
(* own specification whose Init draws the input tables from bounded sets   *)
(* and whose actions run the program.                                      *)
(***************************************************************************)
EXTENDS Integers, Sequences, FiniteSets, TLC

VARIABLES
    pc,            \* "start" before the program has run, then how it ended
    df,            \* ratings.py: the raw ratings table handed to clean_ratings
    valid_users,   \* ratings.py: the optional user allow-list table
    valid_movies,  \* ratings.py: the optional movie allow-list table
    cleaned,       \* ratings.py: the table clean_ratings returned
    users_df,      \* users.py: the table read from users.csv
    users_out,     \* users.py: the table written to cleaned_users.csv
    viewing_df,    \* history.py: the watch_history table of the database
    database_df,   \* history.py: the user_id column of the users table
    known_devices, \* history.py: the device allow-list
    results,       \* history.py: the dictionary validate_watch_history returned
    subscriptions, \* interval merger: one user's subscription records
    merged         \* interval merger: the intervals emitted

ratingVars == <<df, valid_users, valid_movies, cleaned>>
userVars == <<users_df, users_out>>
historyVars == <<viewing_df, database_df, known_devices, results>>
mergerVars == <<subscriptions, merged>>
vars == <<pc, ratingVars, userVars, historyVars, mergerVars>>

(***************************************************************************)
(* Bounds of the model                                                     *)
(***************************************************************************)
MaxRatings == 2      \* rows of the raw ratings table
MaxUsers == 3        \* rows of users.csv
MaxEvents == 3       \* rows of the watch_history table
MaxRecords == 3      \* subscription records of the user

(***************************************************************************)
(* DataFrames                                                              *)
(***************************************************************************)
\* A missing cell (NaN / None) of an id column.
NaN == "NaN"
\* pd.to_datetime(..., errors='coerce') yields NaT for an unparseable cell;
\* parsed timestamps are day numbers >= 1.
NaT == -1

Frame(columns, rows) == [is_none |-> FALSE, columns |-> columns, rows |-> rows]
\* The Python value None where a DataFrame is optional.
NoneFrame == [is_none |-> TRUE, columns |-> {}, rows |-> <<>>]
\* The table of a program that has not produced one.
NoFrame == Frame({}, <<>>)

Range(s) == {s[i] : i \in DOMAIN s}

\* The subsequence of s at the positions in idx, in order.
RECURSIVE Pick(_, _, _)
Pick(s, idx, i) ==
    IF i > Len(s) THEN <<>>
    ELSE (IF i \in idx THEN <<s[i]>> ELSE <<>>) \o Pick(s, idx, i + 1)

\* df[mask]: the rows at the positions where the mask holds, in order.
Masked(rows, mask) == Pick(rows, mask, 1)

RECURSIVE SumOver(_, _)
SumOver(f, S) ==
    IF S = {} THEN 0
    ELSE LET x == CHOOSE y \in S : TRUE IN f[x] + SumOver(f, S \ {x})

Abs(x) == IF x < 0 THEN -x ELSE x

RECURSIVE GCD(_, _)
GCD(a, b) == IF b = 0 THEN Abs(a) ELSE GCD(b, a % b)

\* A real number num/den in lowest terms, den > 0: the value of a mean.
Ratio(num, den) ==
    LET g == GCD(num, den) IN [num |-> num \div g, den |-> den \div g]

(***************************************************************************)
(* src/ratings.py: clean_ratings                                           *)
(***************************************************************************)
\* What a call produced: the returned table, or the exception it raised.
Returned(frame) == [raised |-> "none", table |-> frame]
Raised(exc) == [raised |-> exc, table |-> NoFrame]

KeyOf(row, subset) == [c \in subset |-> row[c]]

\* Mutant of drop_duplicates: the subset is ignored and rows are compared on
\* all their columns.
drop_duplicates_ignoring_subset(rows, subset, keep) ==
    Pick(rows,
         {i \in DOMAIN rows :
             \A j \in DOMAIN rows :
                 (IF keep = "first" THEN j < i ELSE j > i) => rows[j] # rows[i]},
         1)

\* DataFrame.drop_duplicates(subset=subset, keep=keep) on the rows: rows are
\* compared on the columns of subset; NaN cells compare equal to each other.
drop_duplicates(rows, subset, keep) ==
    Pick(rows,
         {i \in DOMAIN rows :
             \A j \in DOMAIN rows :
                 (IF keep = "first" THEN j < i ELSE j > i)
                     => KeyOf(rows[j], subset) # KeyOf(rows[i], subset)},
         1)

\* Series.isin(values) for a column of the table.
isin(rows, col, values) == Masked(rows, {i \in DOMAIN rows : rows[i][col] \in values})

\* Series.between(left, right), inclusive on both sides.
between(x, left, right) == left <= x /\ x <= right

\* Step 2 of clean_ratings for one allow-list (lines 36-44 for users, 46-54
\* for movies): no filtering without a list or without its id column;
\* df[col] raises KeyError when the ratings table lacks the column.
FilterValid(d, valid, col) ==
    IF valid.is_none \/ col \notin valid.columns THEN Returned(d)
    ELSE IF col \notin d.columns THEN Raised("KeyError")
    ELSE Returned(Frame(d.columns,
                        isin(d.rows, col, {r[col] : r \in Range(valid.rows)})))

\* Mutant of RemoveImpossibleScores: the filtered table is not assigned
\* back, so every row stays.
KeepImpossibleScores(d) ==
    IF "rating" \notin d.columns THEN Raised("KeyError") ELSE Returned(d)

\* Step 3 (lines 57-58): df['rating'] raises KeyError without the column.
RemoveImpossibleScores(d) ==
    IF "rating" \notin d.columns THEN Raised("KeyError")
    ELSE Returned(Frame(d.columns,
                        Masked(d.rows,
                               {i \in DOMAIN d.rows : between(d.rows[i]["rating"], 0, 5)})))

\* pd.to_datetime(cell, errors='coerce') by what it does to the cells the
\* model draws: an ISO date parses to its day number, anything else to NaT.
to_datetime(cell) ==
    CASE cell = "2024-01-01" -> 1
      [] cell = "2024-01-02" -> 2
      [] OTHER -> NaT

Orderings(n) ==
    {p \in [1..n -> 1..n] : \A i, j \in 1..n : i # j => p[i] # p[j]}

\* DataFrame.sort_values(by) with the default kind='quicksort',
\* which is not stable: every ascending arrangement of the rows is a
\* possible result, rows with equal keys in any order.
sort_values(rows, by) ==
    {[i \in DOMAIN rows |-> rows[p[i]]] :
        p \in {q \in Orderings(Len(rows)) :
                 \A i, j \in DOMAIN rows :
                     i < j => rows[q[i]][by] <= rows[q[j]][by]}}

\* The order groupby(sort=True) lists the group keys in (string order).
IdOrder == <<"M1", "M2", "U1", "U2">>
IdRank(v) == CHOOSE i \in DOMAIN IdOrder : IdOrder[i] = v
KeyBefore(a, b) ==
    \/ IdRank(a[1]) < IdRank(b[1])
    \/ a[1] = b[1] /\ IdRank(a[2]) < IdRank(b[2])

RECURSIVE SortKeys(_)
SortKeys(keys) ==
    IF keys = {} THEN <<>>
    ELSE LET k == CHOOSE a \in keys : \A b \in keys \ {a} : KeyBefore(a, b)
         IN <<k>> \o SortKeys(keys \ {k})

\* Mutant of mean: the sum is not divided by the number of rows.
mean_undivided(rows, idx) ==
    Ratio(SumOver([i \in idx |-> rows[i]["rating"]], idx), 1)

\* Series.mean() of the ratings of the rows at the positions in idx.
mean(rows, idx) ==
    Ratio(SumOver([i \in idx |-> rows[i]["rating"]], idx), Cardinality(idx))

\* groupby(['user_id','movie_id'], as_index=False)['rating'].mean() (line 81):
\* one row per key, keys sorted; groupby's default dropna=True leaves out
\* every row with a missing key cell.
groupby_mean(rows) ==
    LET keyed == {i \in DOMAIN rows :
                     rows[i]["user_id"] # NaN /\ rows[i]["movie_id"] # NaN}
        keys == SortKeys({<<rows[i]["user_id"], rows[i]["movie_id"]>> : i \in keyed})
    IN [n \in DOMAIN keys |->
            [user_id |-> keys[n][1],
             movie_id |-> keys[n][2],
             rating |-> mean(rows,
                             {i \in keyed :
                                 <<rows[i]["user_id"], rows[i]["movie_id"]>> = keys[n]})]]

\* Mutant of KeepMostRecent: keep='first' after the ascending sort.
KeepOldest(d) ==
    LET parsed == [i \in DOMAIN d.rows |->
                      [d.rows[i] EXCEPT !["timestamp"] = to_datetime(@)]]
        dated == Masked(parsed, {i \in DOMAIN parsed : parsed[i]["timestamp"] # NaT})
    IN IF ~ ({"user_id", "movie_id"} \subseteq d.columns)
       THEN {Raised("KeyError")}
       ELSE {Returned(Frame(d.columns,
                            drop_duplicates(s, {"user_id", "movie_id"}, "first"))) :
                s \in sort_values(dated, "timestamp")}

\* Step 4, timestamped branch (lines 65-77): parse, drop NaT, sort, keep the
\* last row of each (user_id, movie_id).
KeepMostRecent(d) ==
    LET parsed == [i \in DOMAIN d.rows |->
                      [d.rows[i] EXCEPT !["timestamp"] = to_datetime(@)]]
        dated == Masked(parsed, {i \in DOMAIN parsed : parsed[i]["timestamp"] # NaT})
    IN IF ~ ({"user_id", "movie_id"} \subseteq d.columns)
       THEN {Raised("KeyError")}
       ELSE {Returned(Frame(d.columns,
                            drop_duplicates(s, {"user_id", "movie_id"}, "last"))) :
                s \in sort_values(dated, "timestamp")}

\* Step 4, untimestamped branch (lines 80-81).
AverageRatings(d) ==
    IF ~ ({"user_id", "movie_id"} \subseteq d.columns)
    THEN {Raised("KeyError")}
    ELSE {Returned(Frame({"user_id", "movie_id", "rating"}, groupby_mean(d.rows)))}

\* Step 4 (lines 61-82).
ResolveConflicts(d) ==
    IF "timestamp" \in d.columns THEN KeepMostRecent(d) ELSE AverageRatings(d)

\* clean_ratings(df, valid_users, valid_movies) (lines 12-87): the set of
\* results the call can produce (more than one only through the unstable
\* sort).
clean_ratings(d, users, movies) ==
    LET s1 == Returned(Frame(d.columns, drop_duplicates(d.rows, d.columns, "first")))
        s2 == FilterValid(s1.table, users, "user_id")
        s3 == IF s2.raised # "none" THEN s2 ELSE FilterValid(s2.table, movies, "movie_id")
        s4 == IF s3.raised # "none" THEN s3 ELSE RemoveImpossibleScores(s3.table)
    IN IF s4.raised # "none" THEN {s4} ELSE ResolveConflicts(s4.table)

\* The rows the model draws for a table with all the columns of fullRows
\* that are in columns.
RowsOver(columns, fullRows) == {[c \in columns |-> r[c]] : r \in fullRows}

\* d is a table over columns of at most maxRows of these rows.
IsTableOver(d, columns, fullRows, maxRows) ==
    \E n \in 0..maxRows : \E rows \in [1..n -> RowsOver(columns, fullRows)] :
        d = Frame(columns, rows)

\* The cells the model draws for the columns of a ratings table.
RatingRows ==
    [user_id : {"U1", "U2", NaN},
     movie_id : {"M1"},
     rating : {2, 5, 7},
     timestamp : {"2024-01-01", "2024-01-02", "n/a"}]

RatingColumns == {"user_id", "movie_id", "rating", "timestamp"}
\* The column sets of the raw ratings table: complete, without timestamps,
\* and without timestamps and one more column.
RatingColumnSets ==
    {RatingColumns, RatingColumns \ {"timestamp"}}
        \cup {RatingColumns \ {"timestamp", c} : c \in {"user_id", "movie_id", "rating"}}

\* The allow-lists handed to clean_ratings: None, or a table listing one id.
AllowLists(col, ids) ==
    {NoneFrame} \cup {Frame({col}, <<[c \in {col} |-> id]>>) : id \in ids}
\* An allow-list table that lacks its id column.
UnkeyedList == Frame({"name"}, <<>>)

\* The variables of the programs a specification does not run.
IdleRatings ==
    df = NoFrame /\ valid_users = NoneFrame /\ valid_movies = NoneFrame /\ cleaned = NoFrame
IdleUsers == users_df = NoFrame /\ users_out = NoFrame
IdleHistory ==
    viewing_df = NoFrame /\ database_df = NoFrame /\ known_devices = {} /\ results = <<>>
IdleMerger == subscriptions = <<>> /\ merged = <<>>

InitRatings ==
    /\ pc = "start"
    /\ \E cs \in RatingColumnSets : IsTableOver(df, cs, RatingRows, MaxRatings)
    /\ valid_users \in AllowLists("user_id", {"U1"}) \cup {UnkeyedList}
    /\ valid_movies \in AllowLists("movie_id", {"M1", "M2"})
    /\ cleaned = NoFrame
    /\ IdleUsers /\ IdleHistory /\ IdleMerger

\* main() line 114: cleaned_ratings = clean_ratings(ratings, users, movies);
\* an exception leaves main through its except clause, which re-raises.
CleanRatings ==
    /\ pc = "start"
    /\ \E res \in clean_ratings(df, valid_users, valid_movies) :
          /\ pc' = (IF res.raised = "none" THEN "returned" ELSE res.raised)
          /\ cleaned' = res.table
    /\ UNCHANGED <<df, valid_users, valid_movies, userVars, historyVars, mergerVars>>

NextRatings == CleanRatings

SpecRatings == InitRatings /\ [][NextRatings]_vars

(***************************************************************************)
(* Claims about clean_ratings (SpecRatings)                                *)
(***************************************************************************)
\* The ids an allow-list lists, and whether it filters at all.
Filters(valid, col) == ~ valid.is_none /\ col \in valid.columns
Listed(valid, col) == {r[col] : r \in Range(valid.rows)}

Timestamped == "timestamp" \in df.columns
InAllowLists(row) ==
    /\ Filters(valid_users, "user_id") => row["user_id"] \in Listed(valid_users, "user_id")
    /\ Filters(valid_movies, "movie_id") => row["movie_id"] \in Listed(valid_movies, "movie_id")
InScoreRange(row) == 0 <= row["rating"] /\ row["rating"] <= 5
TimestampParses(row) == Timestamped => to_datetime(row["timestamp"]) # NaT
\* The input rows that pass the allow-list, range and timestamp-parse filters
\* (as a set of rows, exact duplicates are one row).
Survivors ==
    {r \in Range(df.rows) : InAllowLists(r) /\ InScoreRange(r) /\ TimestampParses(r)}
PairOf(row) == <<row["user_id"], row["movie_id"]>>
SurvivingPairs == {PairOf(r) : r \in Survivors}
OutputRowsOf(pair) == {i \in DOMAIN cleaned.rows : PairOf(cleaned.rows[i]) = pair}
HasMissingId(pair) == pair[1] = NaN \/ pair[2] = NaN
AllPairs == {PairOf(r) : r \in RowsOver({"user_id", "movie_id"}, RatingRows)}

\* C1 as stated: the returned table holds at most one row per
\* (user_id, movie_id) pair and exactly one row for every pair that has a
\* row surviving the filters, in both modes.
C1_OneRowPerSurvivingPair ==
    pc = "returned" =>
        \A pair \in AllPairs :
            Cardinality(OutputRowsOf(pair)) =
                (IF pair \in SurvivingPairs THEN 1 ELSE 0)

\* C1 as amended: at most one row per pair and no row for a pair without a
\* surviving row, in both modes; exactly one row for a surviving pair in
\* timestamped mode, and in untimestamped mode exactly one row when both
\* ids are present and none when user_id or movie_id is missing.
C1_OneRowPerKeyedPair ==
    pc = "returned" =>
        \A pair \in AllPairs :
            Cardinality(OutputRowsOf(pair)) =
                (IF pair \in SurvivingPairs /\ (Timestamped \/ ~ HasMissingId(pair))
                 THEN 1 ELSE 0)

\* Two surviving rows of one pair with both ids present were resolved to
\* one output row.
C1_Witness ==
    /\ pc = "returned"
    /\ \E r1, r2 \in Survivors :
          /\ r1 # r2 /\ PairOf(r1) = PairOf(r2) /\ ~ HasMissingId(PairOf(r1))
          /\ Cardinality(OutputRowsOf(PairOf(r1))) = 1

\* C2: in timestamped mode every kept row is a surviving input row (its
\* timestamp parsed) whose timestamp is the maximum over the surviving rows
\* of its pair, so no row with an unparseable timestamp is kept.
C2_KeepsMostRecent ==
    (pc = "returned" /\ Timestamped) =>
        \A i \in DOMAIN cleaned.rows :
            LET kept == cleaned.rows[i] IN
            /\ \E r \in Survivors :
                  kept = [r EXCEPT !["timestamp"] = to_datetime(@)]
            /\ \A r \in Survivors :
                  PairOf(r) = PairOf(kept) =>
                      to_datetime(r["timestamp"]) <= kept["timestamp"]

\* An older and a newer submission of one pair with different ratings, and
\* the kept row carries the newer one's rating.
C2_Witness ==
    /\ pc = "returned" /\ Timestamped
    /\ \E old, new \in Survivors :
          /\ PairOf(old) = PairOf(new)
          /\ to_datetime(old["timestamp"]) < to_datetime(new["timestamp"])
          /\ old["rating"] # new["rating"]
          /\ \E i \in DOMAIN cleaned.rows :
                /\ PairOf(cleaned.rows[i]) = PairOf(new)
                /\ cleaned.rows[i]["rating"] = new["rating"]

\* C3: in untimestamped mode the rating of every output row is the
\* arithmetic mean of the ratings of the surviving rows of its pair, and
\* lies within [0,5].
C3_MeanOfSurvivors ==
    (pc = "returned" /\ ~ Timestamped) =>
        \A i \in DOMAIN cleaned.rows :
            LET out == cleaned.rows[i]
                group == {r \in Survivors : PairOf(r) = PairOf(out)}
                total == SumOver([r \in group |-> r["rating"]], group)
            IN /\ group # {}
               /\ out["rating"].den > 0
               /\ out["rating"].num * Cardinality(group) = total * out["rating"].den
               /\ 0 <= out["rating"].num
               /\ out["rating"].num <= 5 * out["rating"].den

\* A pair with two different surviving ratings, whose output rating is
\* their mean: a value that is none of the input ratings.
C3_Witness ==
    /\ pc = "returned" /\ ~ Timestamped
    /\ \E i \in DOMAIN cleaned.rows :
          /\ Cardinality({r \in Survivors : PairOf(r) = PairOf(cleaned.rows[i])}) = 2
          /\ cleaned.rows[i]["rating"] = Ratio(7, 2)

\* The input table without its row at position i.
WithoutRow(d, i) == Frame(d.columns, Pick(d.rows, DOMAIN d.rows \ {i}, 1))

\* C4: a row with an out-of-range rating or an id absent from a supplied
\* allow-list takes no part in conflict resolution: the call returns what it
\* can return for the input without that row.  When neither allow-list is
\* supplied, every pair of a row that is in range (and whose timestamp
\* parses) reaches resolution whatever its ids.
C4_FiltersBeforeResolution ==
    pc = "returned" =>
        /\ \A i \in DOMAIN df.rows :
              ~ (InScoreRange(df.rows[i]) /\ InAllowLists(df.rows[i])) =>
                  LET without == clean_ratings(WithoutRow(df, i), valid_users, valid_movies)
                  IN /\ without = clean_ratings(df, valid_users, valid_movies)
                     /\ Returned(cleaned) \in without
        /\ (valid_users.is_none /\ valid_movies.is_none) =>
              \A r \in Range(df.rows) :
                  (InScoreRange(r) /\ TimestampParses(r)
                        /\ (Timestamped \/ ~ HasMissingId(PairOf(r))))
                      => OutputRowsOf(PairOf(r)) # {}

\* A filtered-out row shares its pair with a valid row (later in the table,
\* and no older when timestamped), and the output row of the pair carries
\* the valid row's rating alone.
C4_Witness ==
    /\ pc = "returned"
    /\ \E i, j \in DOMAIN df.rows :
          /\ ~ (InScoreRange(df.rows[i]) /\ InAllowLists(df.rows[i]))
          /\ df.rows[j] \in Survivors
          /\ PairOf(df.rows[i]) = PairOf(df.rows[j])
          /\ Timestamped =>
                /\ TimestampParses(df.rows[i])
                /\ to_datetime(df.rows[i]["timestamp"]) > to_datetime(df.rows[j]["timestamp"])
          /\ \E k \in DOMAIN cleaned.rows :
                /\ PairOf(cleaned.rows[k]) = PairOf(df.rows[j])
                /\ cleaned.rows[k]["rating"] =
                       (IF Timestamped THEN df.rows[j]["rating"]
                        ELSE Ratio(df.rows[j]["rating"], 1))

\* C10 as stated, for clean_ratings: a missing column of the ratings table
\* skips the dependent step and the call raises no error.
C10_MissingColumnNeverRaises ==
    pc \in {"start", "returned", "saved"}

(***************************************************************************)
(* src/users.py: the module body                                           *)
(***************************************************************************)
\* A cell of a float column is a real number num/den; np.nan is 0/0.
Real(x) == [num |-> x, den |-> 1]
np_nan == [num |-> 0, den |-> 0]
isna(x) == x.den = 0
\* x < y on float cells: every comparison with NaN is False.
Less(x, y) == ~ isna(x) /\ ~ isna(y) /\ x.num * y.den < y.num * x.den

\* A cell of the email column: a Python str (its characters), or a missing
\* cell, which is a float and no str.
Str(chars) == [is_str |-> TRUE, chars |-> chars]
NotStr == [is_str |-> FALSE, chars |-> <<>>]

\* The character classes of the pattern r'^[\w\.-]+@[\w\.-]+\.\w+$'.
WordChars ==
    {"a", "b", "c", "d", "e", "f", "g", "h", "i", "j", "k", "l", "m", "n", "o",
     "p", "q", "r", "s", "t", "u", "v", "w", "x", "y", "z", "0", "1", "_"}
LocalChars == WordChars \cup {".", "-"}

\* re.match(pattern, email) is not None: one or more [\w.-], an "@", one or
\* more [\w.-], a ".", one or more \w, then the end of the string ("$" also
\* matches just before a final newline).
re_match(chars) ==
    LET n == Len(chars)
        ends == {n} \cup (IF n > 0 /\ chars[n] = "\n" THEN {n - 1} ELSE {})
    IN \E e \in ends : \E at \in 2..e : \E dot \in (at + 2)..(e - 1) :
          /\ chars[at] = "@"
          /\ chars[dot] = "."
          /\ \A k \in 1..(at - 1) : chars[k] \in LocalChars
          /\ \A k \in (at + 1)..(dot - 1) : chars[k] \in LocalChars
          /\ \A k \in (dot + 1)..e : chars[k] \in WordChars

\* validate_email (lines 13-18).
validate_email(email) == email.is_str /\ re_match(email.chars)

\* 'unknown@example.com' (line 52).
Placeholder ==
    Str(<<"u", "n", "k", "n", "o", "w", "n", "@",
          "e", "x", "a", "m", "p", "l", "e", ".", "c", "o", "m">>)

\* Series.median(): the middle value of the non-NaN cells, the mean of the
\* two middle values when their number is even, NaN when there is none.
median(cells) ==
    LET present == {i \in DOMAIN cells : ~ isna(cells[i])}
        n == Cardinality(present)
        \* the k-th smallest of the present cells
        AtRank(k) ==
            cells[CHOOSE i \in present :
                     /\ Cardinality({j \in present : Less(cells[j], cells[i])}) < k
                     /\ k <= Cardinality({j \in present : ~ Less(cells[i], cells[j])})]
    IN IF n = 0 THEN np_nan
       ELSE IF n % 2 = 1 THEN AtRank((n + 1) \div 2)
       ELSE LET lo == AtRank(n \div 2)
                hi == AtRank(n \div 2 + 1)
            IN Ratio(lo.num * hi.den + hi.num * lo.den, 2 * lo.den * hi.den)

\* Lines 32-38: ages outside [0,120] become NaN, then every NaN age (these
\* and the cells that were missing) is filled with the median of the rest;
\* fillna with a NaN median changes nothing.
CleanAge(d) ==
    IF "age" \notin d.columns THEN d
    ELSE LET nulled == [i \in DOMAIN d.rows |->
                           [d.rows[i] EXCEPT !["age"] =
                               IF Less(@, Real(0)) \/ Less(Real(120), @)
                               THEN np_nan ELSE @]]
             median_age == median([i \in DOMAIN nulled |-> nulled[i]["age"]])
         IN Frame(d.columns,
                  [i \in DOMAIN nulled |->
                      [nulled[i] EXCEPT !["age"] = IF isna(@) THEN median_age ELSE @]])

\* Lines 43-54: the rows whose email validates are kept, then an email equal
\* to '' is replaced by the placeholder.
CleanEmail(d) ==
    IF "email" \notin d.columns THEN d
    ELSE LET valid == Masked(d.rows,
                             {i \in DOMAIN d.rows : validate_email(d.rows[i]["email"])})
         IN Frame(d.columns,
                  [i \in DOMAIN valid |->
                      [valid[i] EXCEPT !["email"] =
                          IF @ = Str(<<>>) THEN Placeholder ELSE @]])

\* Line 60.
valid_countries == {"USA", "India", "Canada", "UK", "Australia"}

\* Lines 59-65.
FilterCountry(d) ==
    IF "country" \notin d.columns THEN d
    ELSE Frame(d.columns, isin(d.rows, "country", valid_countries))

\* The module body, lines 22-70: the table written to cleaned_users.csv.
clean_users(d) ==
    FilterCountry(CleanEmail(CleanAge(
        Frame(d.columns, drop_duplicates(d.rows, d.columns, "first")))))

\* The cells the model draws for the columns of users.csv.
UserRows ==
    [age : {Real(-5), Real(30), Real(41), Real(150), np_nan},
     email : {Str(<<>>), Str(<<"a", "@", "b", ".", "c">>), Str(<<"a", "@", "b">>), NotStr},
     country : {"USA", "Mars"}]
UserColumns == {"age", "email", "country"}
\* The column sets of users.csv: complete, or without one column.
UserColumnSets == {UserColumns} \cup {UserColumns \ {c} : c \in UserColumns}

InitUsers ==
    /\ pc = "start"
    /\ \E cs \in UserColumnSets : IsTableOver(users_df, cs, UserRows, MaxUsers)
    /\ users_out = NoFrame
    /\ IdleRatings /\ IdleHistory /\ IdleMerger

\* The run of users.py on the loaded table, up to df.to_csv (line 69).
CleanUsers ==
    /\ pc = "start"
    /\ users_out' = clean_users(users_df)
    /\ pc' = "saved"
    /\ UNCHANGED <<users_df, ratingVars, historyVars, mergerVars>>

NextUsers == CleanUsers

SpecUsers == InitUsers /\ [][NextUsers]_vars

(***************************************************************************)
(* src/history.py: validate_watch_history                                  *)
(***************************************************************************)
\* Mutant of CombineInconsistencies: the concatenation is not deduplicated.
ConcatInconsistencies(found) ==
    (IF "unexpected_devices" \in DOMAIN found
     THEN found["unexpected_devices"].rows ELSE <<>>)
        \o (IF "invalid_ids" \in DOMAIN found THEN found["invalid_ids"].rows ELSE <<>>)

\* pd.concat(results.values()).drop_duplicates() (line 83): the tables of
\* the dictionary in insertion order, then the first of each group of equal
\* rows.
CombineInconsistencies(found) ==
    LET all == (IF "unexpected_devices" \in DOMAIN found
                THEN found["unexpected_devices"].rows ELSE <<>>)
                   \o (IF "invalid_ids" \in DOMAIN found
                       THEN found["invalid_ids"].rows ELSE <<>>)
    IN drop_duplicates(all, UNION {found[k].columns : k \in DOMAIN found}, "first")

\* validate_watch_history(known_devices) (lines 42-87) on the two query
\* results: the dictionary returned, a function from its keys to its tables.
validate_watch_history(viewing, database, devices) ==
    IF ~ ({"user_id", "device"} \subseteq viewing.columns) THEN <<>>
    ELSE
      LET filled == [i \in DOMAIN viewing.rows |->
                        [viewing.rows[i] EXCEPT !["device"] =
                            IF @ = NaN THEN "Unknown" ELSE @]]
          unexpected_devices ==
              Masked(filled, {i \in DOMAIN filled : filled[i]["device"] \notin devices})
          invalid_ids ==
              Masked(filled,
                     {i \in DOMAIN filled :
                         filled[i]["user_id"]
                             \notin {u["user_id"] : u \in Range(database.rows)}})
          keys == (IF unexpected_devices # <<>> THEN {"unexpected_devices"} ELSE {})
                      \cup (IF invalid_ids # <<>> THEN {"invalid_ids"} ELSE {})
          found == [k \in keys |->
                       Frame(viewing.columns,
                             IF k = "unexpected_devices" THEN unexpected_devices
                             ELSE invalid_ids)]
      IN IF keys = {} THEN found
         ELSE [k \in keys \cup {"all_inconsistencies"} |->
                  IF k = "all_inconsistencies"
                  THEN Frame(viewing.columns, CombineInconsistencies(found))
                  ELSE found[k]]

\* The cells the model draws for the watch_history table.
EventRows == [user_id : {"U1", "U9"}, device : {"Laptop", "Fridge", NaN}]
EventColumns == {"user_id", "device"}
EventColumnSets == {EventColumns, {"user_id"}, {"device"}}
\* main() line 113, and an allow-list that accepts the literal "Unknown".
DeviceLists ==
    {{"Smartphone", "Laptop", "Tablet", "Smart TV", "Desktop"}, {"Laptop", "Unknown"}}

InitHistory ==
    /\ pc = "start"
    /\ \E cs \in EventColumnSets : IsTableOver(viewing_df, cs, EventRows, MaxEvents)
    /\ database_df \in {Frame({"user_id"}, <<>>), Frame({"user_id"}, <<[user_id |-> "U1"]>>)}
    /\ known_devices \in DeviceLists
    /\ results = <<>>
    /\ IdleRatings /\ IdleUsers /\ IdleMerger

\* main() line 116: results = validate_watch_history(known_devices).
ValidateWatchHistory ==
    /\ pc = "start"
    /\ results' = validate_watch_history(viewing_df, database_df, known_devices)
    /\ pc' = "returned"
    /\ UNCHANGED <<viewing_df, database_df, known_devices, ratingVars, userVars, mergerVars>>

NextHistory == ValidateWatchHistory

SpecHistory == InitHistory /\ [][NextHistory]_vars

(***************************************************************************)
(* Interval merger (spec.md section 4.1)                                   *)
(***************************************************************************)
Max(a, b) == IF a >= b THEN a ELSE b

\* Mutant of Overlaps: touching intervals are not merged.
OverlapsStrictly(record, current) == record.start_date < current.end_date

\* A record folds into the accumulator when its start_date is <= the
\* accumulator's end_date (touching counts as overlap).
Overlaps(record, current) == record.start_date <= current.end_date

\* The sweep from record i on, with the accumulator current and the
\* intervals emitted so far.
RECURSIVE Sweep(_, _, _, _)
Sweep(sorted, i, current, emitted) ==
    IF i > Len(sorted) THEN Append(emitted, current)
    ELSE IF Overlaps(sorted[i], current)
         THEN Sweep(sorted, i + 1,
                    [current EXCEPT !.end_date = Max(@, sorted[i].end_date),
                                    !.amount_paid = @ + sorted[i].amount_paid],
                    emitted)
         ELSE Sweep(sorted, i + 1, sorted[i], Append(emitted, current))

\* The merger for one user: sort by start_date ascending, then sweep; the
\* results over every order the sort may leave equal start dates in.
merge_intervals(records) ==
    IF records = <<>> THEN {<<>>}
    ELSE {Sweep(sorted, 2, sorted[1], <<>>) : sorted \in sort_values(records, "start_date")}

\* The records the model draws: start_date <= end_date within a four-day
\* calendar.
SubscriptionRecords ==
    {r \in [start_date : 1..4, end_date : 1..4, amount_paid : {5, 8}] :
        r.start_date <= r.end_date}

InitMerger ==
    /\ pc = "start"
    /\ \E n \in 0..MaxRecords : subscriptions \in [1..n -> SubscriptionRecords]
    /\ merged = <<>>
    /\ IdleRatings /\ IdleUsers /\ IdleHistory

MergeSubscriptions ==
    /\ pc = "start"
    /\ merged' \in merge_intervals(subscriptions)
    /\ pc' = "merged"
    /\ UNCHANGED <<subscriptions, ratingVars, userVars, historyVars>>

NextMerger == MergeSubscriptions

SpecMerger == InitMerger /\ [][NextMerger]_vars

(***************************************************************************)
(* Claims about the interval merger (SpecMerger)                           *)
(***************************************************************************)
\* The calendar days a sequence of intervals covers.
Coverage(intervals) ==
    UNION {intervals[i].start_date .. intervals[i].end_date : i \in DOMAIN intervals}

\* C5: each emitted interval starts strictly after the end of the interval
\* emitted before it, and the emitted intervals cover exactly the days the
\* input records cover.
C5_DisjointSameCoverage ==
    pc = "merged" =>
        /\ \A k \in 1..(Len(merged) - 1) :
              merged[k + 1].start_date > merged[k].end_date
        /\ Coverage(merged) = Coverage(subscriptions)

\* Three records, two of them touching (one starts on the day the other
\* ends) and given out of order, merged into two emitted intervals.
C5_Witness ==
    /\ pc = "merged"
    /\ Len(subscriptions) = 3 /\ Len(merged) = 2
    /\ subscriptions[1].start_date > subscriptions[2].start_date
    /\ \E i, j \in DOMAIN subscriptions :
          /\ i # j
          /\ subscriptions[i].start_date = subscriptions[j].end_date
          /\ subscriptions[j].start_date < subscriptions[j].end_date

(***************************************************************************)
(* Claims about validate_watch_history (SpecHistory)                       *)
(***************************************************************************)
\* results.get(key, pd.DataFrame()): the rows of a table of the dictionary,
\* none when the key is absent.
RowsOf(key) == IF key \in DOMAIN results THEN results[key].rows ELSE <<>>
\* The input rows with a missing device read as "Unknown".
Normalized ==
    [i \in DOMAIN viewing_df.rows |->
        [c \in viewing_df.columns |->
            IF c = "device" /\ viewing_df.rows[i][c] = NaN
            THEN "Unknown" ELSE viewing_df.rows[i][c]]]
UnexpectedDevice(row) == row["device"] \notin known_devices
UnknownUser(row) == row["user_id"] \notin {u["user_id"] : u \in Range(database_df.rows)}
NoDuplicateRows(rows) == \A i, j \in DOMAIN rows : i # j => rows[i] # rows[j]

\* C6: with both columns present, 'unexpected_devices' is the rows whose
\* normalized device is not a known device, 'invalid_ids' the rows whose
\* user_id is not a known user, 'all_inconsistencies' their union with
\* every row once (an empty table is an absent key); with a column missing
\* the call returns an empty dictionary and raises nothing.
C6_ValidatorTables ==
    pc = "returned" =>
        IF {"user_id", "device"} \subseteq viewing_df.columns
        THEN /\ RowsOf("unexpected_devices")
                   = Pick(Normalized,
                          {i \in DOMAIN Normalized : UnexpectedDevice(Normalized[i])}, 1)
             /\ RowsOf("invalid_ids")
                   = Pick(Normalized,
                          {i \in DOMAIN Normalized : UnknownUser(Normalized[i])}, 1)
             /\ Range(RowsOf("all_inconsistencies"))
                   = {r \in Range(Normalized) : UnexpectedDevice(r) \/ UnknownUser(r)}
             /\ NoDuplicateRows(RowsOf("all_inconsistencies"))
             /\ \A k \in DOMAIN results : results[k].rows # <<>>
        ELSE results = <<>>

\* A row with a missing device and an unknown user fails both checks: it is
\* in both tables, with the device "Unknown", and once in the union.
C6_Witness ==
    /\ pc = "returned"
    /\ {"user_id", "device"} \subseteq viewing_df.columns
    /\ \E i \in DOMAIN viewing_df.rows :
          /\ viewing_df.rows[i]["device"] = NaN
          /\ UnknownUser(Normalized[i])
          /\ Normalized[i] \in Range(RowsOf("unexpected_devices"))
          /\ Normalized[i] \in Range(RowsOf("invalid_ids"))
          /\ Cardinality({k \in DOMAIN RowsOf("all_inconsistencies") :
                             RowsOf("all_inconsistencies")[k] = Normalized[i]}) = 1

(***************************************************************************)
(* Claims about the user cleaning pass (SpecUsers)                         *)
(***************************************************************************)
InAgeRange(age) == ~ isna(age) /\ ~ Less(age, Real(0)) /\ ~ Less(Real(120), age)
\* The distinct rows of users.csv, in order.
DistinctUsers == drop_duplicates(users_df.rows, users_df.columns, "first")
\* The median of the in-range ages of the distinct rows.
MedianInRange ==
    LET inRange == Masked(DistinctUsers,
                          {i \in DOMAIN DistinctUsers : InAgeRange(DistinctUsers[i]["age"])})
    IN median([i \in DOMAIN inRange |-> inRange[i]["age"]])
\* Row out is what the pass made of input row in, the age aside.
SameUser(out, in) ==
    \A c \in users_df.columns \ {"age"} :
        out[c] = (IF c = "email" /\ in[c] = Str(<<>>) THEN Placeholder ELSE in[c])

\* C7 as stated: every output row is an input row whose age is unchanged
\* when in [0,120] and otherwise the median of the in-range ages, and every
\* output age lies within [0,120].
C7_AgesWithinRange ==
    (pc = "saved" /\ "age" \in users_df.columns) =>
        \A o \in Range(users_out.rows) :
            /\ \E r \in Range(users_df.rows) :
                  /\ SameUser(o, r)
                  /\ o["age"] = (IF InAgeRange(r["age"]) THEN r["age"] ELSE MedianInRange)
            /\ InAgeRange(o["age"])

\* C8 as stated: no output table holds two equal rows: not the table of the
\* user cleaning pass, not the table clean_ratings returns, not a table of
\* the dictionary validate_watch_history returns.
C8_NoDuplicateRows ==
    /\ NoDuplicateRows(users_out.rows)
    /\ NoDuplicateRows(cleaned.rows)
    /\ \A k \in DOMAIN results : NoDuplicateRows(results[k].rows)

\* C9 as stated: a row whose email is the empty string is kept, its email
\* rewritten to the placeholder, and every row whose email is non-empty
\* and does not match the pattern is dropped.
C9_EmptyEmailKept ==
    (pc = "saved" /\ "email" \in users_df.columns) =>
        /\ \A r \in Range(users_df.rows) :
              (/\ r["email"] = Str(<<>>)
               /\ "country" \in users_df.columns => r["country"] \in valid_countries)
                  => \E o \in Range(users_out.rows) :
                        /\ o["email"] = Placeholder
                        /\ \A c \in users_df.columns \ {"age", "email"} : o[c] = r[c]
        /\ \A r \in Range(users_df.rows) :
              (r["email"].is_str /\ r["email"].chars # <<>> /\ ~ re_match(r["email"].chars))
                  => \A o \in Range(users_out.rows) : o["email"] # r["email"]

====
